---- MODULE Spec2Model ----
(***************************************************************************)
(* Profile analyzer: the profile tree builder (profile_parser.py), the LRU *)
(* profile cache (cache.py) and the query handlers' use of the cache       *)
(* (server.py).                                                            *)
(*                                                                         *)
(* The OrderedDict self._cache is a sequence of CachedProfile records,     *)
(* oldest first; its keys are the records' dictionary keys (field k).      *)
(* A profile document is the nesting of its OperationProfileNode elements: *)
(* each element carries its key, its name, the sum of its metric entries   *)
(* and the elements added to the ArrayList of its own children property.   *)
(***************************************************************************)
EXTENDS Integers, Sequences, FiniteSets, TLC

VARIABLES
  max_size,   \* ProfileCache.max_size
  cache,      \* ProfileCache._cache: sequence of [k, v], oldest first
  touched,    \* history: paths of the cached profiles, least recently accessed first
  history,    \* whether this run records gone
  gone,       \* history: profile_ids of entries evicted by LRU, removed or cleared
  last,       \* the last call: operation, arguments, outcome, returned value
  threads     \* concurrent callers: each caller's position inside its call

vars == <<max_size, cache, touched, history, gone, last, threads>>

-----------------------------------------------------------------------------
(* Bounds of the model *)

\* largest max_size the cache is constructed with
MaxSize == 2

\* the values uuid.uuid4().hex[:8] is drawn from (16^8 in the program)
Ids == {"id1", "id2", "id3"}

\* an id no load ever returned
UnknownId == "id0"

-----------------------------------------------------------------------------
(* Files *)

Path(d, s) == [dir |-> d, stem |-> s, ext |-> ".xml"]

PathA == Path("run1", "a")
PathB == Path("run1", "b")
PathC == Path("run2", "a")
PathBad == Path("run1", "bad")
PathNoRoot == Path("run1", "noroot")
PathLossy == Path("run1", "lossy")
PathDblBad == Path("run1", "dblbad")
PathSources == Path("run1", "sources")
PathZero == Path("run1", "zero")
PathBase == Path("run1", "base")
PathNext == Path("run2", "next")
PathWideA == Path("run1", "wide")
PathWideB == Path("run2", "wide")
PathList == Path("run1", "list")
PathFine == Path("run1", "fine")
PathMany == Path("run1", "many")
PathCancel == Path("run1", "cancel")
PathText == Path("run1", "text")

Paths == {PathA, PathB, PathC, PathBad, PathNoRoot}

\* a value element of a map entry: its tag, and its text, which is a label
\* (str) or a decimal numeral (num) of value val
Str(t) == [tag |-> "string", str |-> t, num |-> FALSE, val |-> 0]
Dbl(v) == [tag |-> "double", str |-> "", num |-> TRUE, val |-> v]
DblText(t) == [tag |-> "double", str |-> t, num |-> FALSE, val |-> 0]
IntVal(v) == [tag |-> "int", str |-> "", num |-> TRUE, val |-> v]

\* an OperationSource element: the lines of its source text (text.split of a
\* text without line breaks is the one line) and the strings added to its
\* argumentKeys and argumentNames lists
OperationSource(lines, keys, names) ==
  [source |-> lines, argumentKeys |-> keys, argumentNames |-> names]

\* an OperationSource of a one-line text, without arguments
Text(t) == OperationSource(<<t>>, <<>>, <<>>)

\* an OperationProfileNode element: key, name, the metric property (<<>> when
\* absent, else <<puts>> or <<puts, count puts>>, the put entries of its entries
\* map and of its counts map, each the sequence of its child values), the put
\* entries of operationSources (key and list of OperationSource elements) and
\* the elements added to its own children list
Element(k, n, m, srcs, kids) ==
  [key |-> k, name |-> n, metric |-> m, sources |-> srcs, kids |-> kids]

\* an element whose metric has the one entry run -> s (no metric when s = 0)
Elem(k, n, s, kids) ==
  Element(k, n, IF s = 0 THEN <<>> ELSE <<(<<(<<Str("run"), Dbl(s)>>)>>)>>, <<>>, kids)

\* root of self-duration 1 with two leaf children of self-duration 2 and 3
DocFlat == Elem("r", "root", 1, <<Elem("a", "mul", 2, <<>>), Elem("b", "add", 3, <<>>)>>)

\* three levels: r > a > b, and a second child c of r
DocDeep ==
  Elem("r", "root", 1,
       <<Elem("a", "mul", 2, <<Elem("b", "add", 3, <<>>)>>), Elem("c", "sum", 1, <<>>)>>)

\* a single anonymous node
DocSolo == Elem("", "solo", 0, <<>>)

\* the root's entries map holds a put with the key alone, a put whose value is
\* the string abc, and the well-formed put y -> 4; the child's holds run -> 2
DocLossy ==
  Element("r", "root",
          <<(<<(<<Str("run")>>), <<Str("x"), Str("abc")>>, <<Str("y"), Dbl(4)>>>>)>>,
          <<>>, <<Elem("a", "mul", 2, <<>>)>>)

\* the child's entries map holds a double element whose text is abc
DocDblBad ==
  Elem("r", "root", 1,
       <<Element("a", "mul", <<(<<(<<Str("run"), DblText("abc")>>)>>)>>, <<>>, <<>>)>>)

\* operationSources at three levels: r holds k1 and k2 (and a put with an empty
\* key and one with an empty list), its child a holds k2, a's child b holds k3;
\* r's metric has two entries
DocSources ==
  Element("r", "root", <<(<<(<<Str("run"), Dbl(1)>>), <<Str("gpu"), Dbl(2)>>>>)>>,
          <<[key |-> "k1", list |-> <<Text("r1")>>], [key |-> "k2", list |-> <<Text("r2")>>],
            [key |-> "", list |-> <<Text("r0")>>], [key |-> "k4", list |-> <<>>]>>,
          <<Element("a", "mul", <<(<<(<<Str("run"), Dbl(2)>>)>>)>>,
                    <<[key |-> "k2", list |-> <<Text("a2")>>]>>,
                    <<Element("b", "add", <<>>, <<[key |-> "k3", list |-> <<Text("b3")>>]>>, <<>>)>>),
            Elem("c", "sum", 1, <<>>)>>)

\* keyed nodes without any metric
DocZero == Elem("r", "root", 0, <<Elem("a", "mul", 0, <<>>)>>)

\* two runs of one program, totals 4 and 5: a slows from 2 to 3, z has no
\* duration in either, g is gone from the second and n is new in it
DocBase ==
  Elem("r", "root", 1,
       <<Elem("a", "mul", 2, <<>>), Elem("z", "nop", 0, <<>>), Elem("g", "old", 1, <<>>)>>)

DocNext ==
  Elem("r", "root", 1,
       <<Elem("a", "mul", 3, <<>>), Elem("z", "nop", 0, <<>>), Elem("n", "new", 1, <<>>)>>)

\* one more keyed operation than compare_profiles reports
WideCount == 21

WideKey(i) == "k" \o ToString(i)

\* WideCount leaves of self-duration 3000 under a root without duration ...
DocWideA ==
  Elem("w", "root", 0, [i \in 1..WideCount |-> Elem(WideKey(i), "op", 3000, <<>>)])

\* ... and the same leaves in a second run: the last two at 4500 and 4501
\* (+50% and +50.03%), the others doubled (+100%)
DocWideB ==
  Elem("w", "root", 0,
       [i \in 1..WideCount |->
          Elem(WideKey(i), "op",
               IF i = WideCount THEN 4501 ELSE IF i = WideCount - 1 THEN 4500 ELSE 6000,
               <<>>)])

\* an element with the entry run -> s and the counts given
ElemCounts(k, n, s, counts, kids) ==
  Element(k, n, <<(<<(<<Str("run"), Dbl(s)>>)>>), counts>>, <<>>, kids)

\* children to list: names in mixed case, invocation counts on two of them,
\* one child with a child of its own
DocList ==
  Elem("r", "root", 1,
       <<ElemCounts("a", "beta", 2, <<(<<Str("run"), IntVal(3)>>)>>, <<>>),
         ElemCounts("b", "Alpha", 3, <<(<<Str("run"), IntVal(1)>>), <<Str("x"), IntVal(5)>>>>, <<>>),
         Elem("c", "alpha", 1, <<>>),
         Elem("d", "delta", 1, <<Elem("e", "eps", 4, <<>>)>>)>>)

\* durations below a microsecond, written in tenths of a microsecond (see
\* Decimals): 0.4 us for the root, 1.1 us and 1.2 us for its children
DocFine == Elem("f", "root", 4, <<Elem("a", "mul", 11, <<>>), Elem("b", "add", 12, <<>>)>>)

\* nine nodes with a self-duration, two of them equal, and one without
DocMany ==
  Elem("r", "root", 4,
       <<Elem("k1", "op1", 3, <<>>), Elem("k2", "op2", 7, <<>>), Elem("k3", "op3", 7, <<>>),
         Elem("k4", "op4", 2, <<>>), Elem("k5", "op5", 9, <<>>), Elem("k6", "op6", 1, <<>>),
         Elem("k7", "op7", 0, <<>>), Elem("k8", "op8", 5, <<>>)>>)

\* a root whose negative entry cancels its child's duration: total 0
DocCancel == Elem("r", "root", -2, <<Elem("a", "mul", 2, <<>>)>>)

\* a source text of n lines
Lines(n) == [i \in 1..n |-> "l" \o ToString(i)]

\* sources of 50, 51 and 52 lines, a key with two sources, and a source whose
\* argument lists hold an empty string each; the node none has no source
DocText ==
  Element("r", "root", <<(<<(<<Str("run"), Dbl(1)>>)>>)>>,
          <<[key |-> "s50", list |-> <<OperationSource(Lines(50), <<>>, <<>>)>>],
            [key |-> "s51", list |-> <<OperationSource(Lines(51), <<>>, <<>>)>>],
            [key |-> "s52", list |-> <<OperationSource(Lines(52), <<>>, <<>>)>>],
            [key |-> "two", list |-> <<Text("first"), OperationSource(Lines(60), <<>>, <<>>)>>],
            [key |-> "args",
             list |-> <<OperationSource(<<"x">>, <<"s50", "", "zz", "s52">>,
                                        <<"p", "q", "", "r">>)>>]>>,
          <<Elem("s50", "a", 1, <<>>), Elem("s51", "b", 1, <<>>), Elem("s52", "c", 1, <<>>),
            Elem("two", "d", 1, <<>>), Elem("args", "e", 1, <<>>), Elem("none", "f", 1, <<>>)>>)

FileAt(path) ==
  CASE path = PathA -> [kind |-> "profile", root |-> DocFlat]
    [] path = PathB -> [kind |-> "profile", root |-> DocDeep]
    [] path = PathC -> [kind |-> "profile", root |-> DocSolo]
    [] path = PathLossy -> [kind |-> "profile", root |-> DocLossy]
    [] path = PathDblBad -> [kind |-> "profile", root |-> DocDblBad]
    [] path = PathSources -> [kind |-> "profile", root |-> DocSources]
    [] path = PathZero -> [kind |-> "profile", root |-> DocZero]
    [] path = PathBase -> [kind |-> "profile", root |-> DocBase]
    [] path = PathNext -> [kind |-> "profile", root |-> DocNext]
    [] path = PathWideA -> [kind |-> "profile", root |-> DocWideA]
    [] path = PathWideB -> [kind |-> "profile", root |-> DocWideB]
    [] path = PathList -> [kind |-> "profile", root |-> DocList]
    [] path = PathFine -> [kind |-> "profile", root |-> DocFine]
    [] path = PathMany -> [kind |-> "profile", root |-> DocMany]
    [] path = PathCancel -> [kind |-> "profile", root |-> DocCancel]
    [] path = PathText -> [kind |-> "profile", root |-> DocText]
    [] path = PathBad -> [kind |-> "malformed", root |-> DocSolo]
    [] OTHER -> [kind |-> "noroot", root |-> DocSolo]

-----------------------------------------------------------------------------
(* profile_parser.py *)

RECURSIVE Concat(_)
Concat(ss) == IF ss = <<>> THEN <<>> ELSE Head(ss) \o Concat(Tail(ss))

\* element.findall(".//object[@class='java.util.ArrayList']") on the children
\* property of e, then every add of every list found, in document order: the
\* lists found are e's own list and, nested inside the elements it holds, the
\* children lists of every descendant.
RECURSIVE found_adds(_)
found_adds(e) ==
  e.kids \o Concat([i \in 1..Len(e.kids) |-> found_adds(e.kids[i])])

\* _extract_value on a value element: the string of a string element, the
\* float of a double element, ValueError when the text of a double is no numeral
extract_value(x) ==
  IF x.tag = "string" THEN [raised |-> FALSE, isstr |-> TRUE, num |-> x.num, val |-> x.val, str |-> x.str]
  ELSE IF x.num THEN [raised |-> FALSE, isstr |-> FALSE, num |-> TRUE, val |-> x.val, str |-> ""]
  ELSE [raised |-> TRUE, isstr |-> FALSE, num |-> FALSE, val |-> 0, str |-> ""]

\* one put of _parse_double_map on the map so far: an entry of fewer than two
\* values is skipped; float(value) of a string that is no numeral raises
\* ValueError, which the loop swallows (pass)
RECURSIVE parse_double_map(_)
parse_double_map(puts) ==
  IF puts = <<>> THEN [raised |-> FALSE, entries |-> <<>>]
  ELSE LET before == parse_double_map(SubSeq(puts, 1, Len(puts) - 1))
           put == puts[Len(puts)]
       IN IF before.raised \/ Len(put) < 2 THEN before
          ELSE LET key == extract_value(put[1])
                   value == extract_value(put[2])
               IN IF key.raised \/ value.raised
                  THEN [raised |-> TRUE, entries |-> before.entries]
                  ELSE IF ~value.num THEN before
                  ELSE [raised |-> FALSE,
                        entries |-> [k \in DOMAIN before.entries \cup {key.str} |->
                                       IF k = key.str THEN value.val ELSE before.entries[k]]]

\* _parse_int_map: the loop of _parse_double_map with int(value) for
\* float(value); the counts of the documents are whole numbers, which both
\* leave as they are
parse_int_map(puts) == parse_double_map(puts)

\* _parse_timing_metric: None (<<>>) without a metric, else its entries; counts
\* are the metric's counts (none without a metric or without a counts map)
parse_timing_metric(m) ==
  IF m = <<>> THEN [raised |-> FALSE, metric |-> <<>>, counts |-> <<>>]
  ELSE LET r == parse_double_map(m[1])
           n == IF Len(m) >= 2 THEN parse_int_map(m[2]) ELSE [raised |-> FALSE, entries |-> <<>>]
       IN [raised |-> r.raised \/ n.raised, metric |-> <<r.entries>>, counts |-> n.entries]

\* _parse_string_list: the strings added, an empty one left out
parse_string_list(adds) == SelectSeq(adds, LAMBDA value : value # "")

\* _parse_operation_source
parse_operation_source(element) ==
  [source |-> element.source,
   argument_keys |-> parse_string_list(element.argumentKeys),
   argument_names |-> parse_string_list(element.argumentNames)]

\* _parse_source_list: the OperationSource objects of the list, in order
parse_source_list(list) == [i \in DOMAIN list |-> parse_operation_source(list[i])]

\* _parse_operation_sources: key -> list of sources; an entry with an empty key
\* or an empty list is left out
RECURSIVE parse_operation_sources(_)
parse_operation_sources(srcs) ==
  IF srcs = <<>> THEN <<>>
  ELSE LET before == parse_operation_sources(SubSeq(srcs, 1, Len(srcs) - 1))
           put == srcs[Len(srcs)]
           sources == parse_source_list(put.list)
       IN IF put.key = "" \/ sources = <<>> THEN before
          ELSE [k \in DOMAIN before \cup {put.key} |->
                  IF k = put.key THEN sources ELSE before[k]]

\* a merge in which the parent's entry replaces the child's own
merge_sources_parent_wins(parent, child) ==
  [k \in DOMAIN child \cup DOMAIN parent |->
     IF k \in DOMAIN parent THEN parent[k] ELSE child[k]]

\* the merge of _propagate_sources: the parent's entries for the keys the
\* child does not have
merge_sources(parent, child) ==
  [k \in DOMAIN child \cup DOMAIN parent |->
     IF k \in DOMAIN child THEN child[k] ELSE parent[k]]

\* _propagate_sources(node): merge into every child, then recurse into it
RECURSIVE propagate_sources(_)
propagate_sources(n) ==
  [n EXCEPT !.children =
     [i \in 1..Len(n.children) |->
        propagate_sources(
          [n.children[i] EXCEPT !.operation_sources =
             merge_sources(n.operation_sources, n.children[i].operation_sources)])]]

\* _parse_profile_node: the properties, then _propagate_sources on the node
\* built; raised when decoding a map raised in the node or below it
RECURSIVE parse_profile_node(_)
parse_children(e) ==
  LET adds == found_adds(e) IN
  [i \in 1..Len(adds) |-> parse_profile_node(adds[i])]

parse_profile_node(e) ==
  LET m == parse_timing_metric(e.metric)
      cs == parse_children(e)
  IN [raised |-> m.raised \/ \E i \in DOMAIN cs : cs[i].raised,
      node |-> propagate_sources(
                 [key |-> e.key, name |-> e.name, metric |-> m.metric, counts |-> m.counts,
                  operation_sources |-> parse_operation_sources(e.sources),
                  children |-> [i \in DOMAIN cs |-> cs[i].node]])]

parse_file(path) ==
  LET f == FileAt(path) IN
  IF f.kind = "malformed" THEN [ok |-> FALSE, error |-> "ParseError", root |-> <<>>]
  ELSE IF f.kind = "noroot" THEN [ok |-> FALSE, error |-> "ValueError", root |-> <<>>]
  ELSE LET r == parse_profile_node(f.root) IN
       IF r.raised THEN [ok |-> FALSE, error |-> "ValueError", root |-> <<>>]
       ELSE [ok |-> TRUE, error |-> "", root |-> <<r.node>>]

RECURSIVE all_nodes(_)
all_nodes(n) ==
  <<n>> \o Concat([i \in 1..Len(n.children) |-> all_nodes(n.children[i])])

RECURSIVE find_by_key(_, _)
RECURSIVE find_in_children(_, _)
\* the first child, in order, whose subtree holds the key; <<>> is None
find_in_children(cs, key) ==
  IF cs = <<>> THEN <<>>
  ELSE LET r == find_by_key(Head(cs), key) IN
       IF r # <<>> THEN r ELSE find_in_children(Tail(cs), key)

find_by_key(n, key) ==
  IF n.key = key THEN <<n>> ELSE find_in_children(n.children, key)

\* ProfileNode.has_source: a non-empty list under the node's own key
has_source(n) ==
  n.key \in DOMAIN n.operation_sources /\ n.operation_sources[n.key] # <<>>

\* a lookup that takes the last source of the list
node_get_source_last(n) ==
  IF has_source(n)
  THEN <<n.operation_sources[n.key][Len(n.operation_sources[n.key])]>> ELSE <<>>

\* ProfileNode.get_source: the first source under the node's own key, None
\* (<<>>) without one
node_get_source(n) ==
  IF has_source(n) THEN <<n.operation_sources[n.key][1]>> ELSE <<>>

-----------------------------------------------------------------------------
(* cache.py *)

CachedProfile(profile_id, path, root) ==
  [profile_id |-> profile_id, name |-> path.stem, path |-> path, root |-> root,
   node_count |-> Len(all_nodes(root))]

Keys(c) == {c[i].k : i \in DOMAIN c}

Values(c) == {c[i].v : i \in DOMAIN c}

IndexOf(c, id) == CHOOSE i \in DOMAIN c : c[i].k = id

Without(c, i) == [j \in 1..(Len(c) - 1) |-> IF j < i THEN c[j] ELSE c[j + 1]]

\* OrderedDict.move_to_end(key)
move_to_end(c, id) == Append(Without(c, IndexOf(c, id)), c[IndexOf(c, id)])

\* OrderedDict.popitem(last=False)
popitem(c) == Tail(c)

\* OrderedDict.__setitem__: an existing key keeps its position
setitem(c, id, v) ==
  IF id \in Keys(c) THEN [c EXCEPT ![IndexOf(c, id)] = [k |-> id, v |-> v]]
  ELSE Append(c, [k |-> id, v |-> v])

\* a remove that drops the oldest entry, whatever the key
delitem_oldest(c, id) == Tail(c)

\* OrderedDict.__delitem__
delitem(c, id) == Without(c, IndexOf(c, id))

\* a lookup that examines the most recent entry only
lookup_path_newest_only(c, path) ==
  IF c # <<>> /\ c[Len(c)].v.path = path THEN <<Len(c)>> ELSE <<>>

\* a load that does not look for the path among the entries
lookup_path_none(c, path) == <<>>

\* the for loop of load: the first entry, in order, whose path is path
lookup_path(c, path) ==
  IF \E i \in DOMAIN c : c[i].v.path = path
  THEN <<CHOOSE i \in DOMAIN c :
           /\ c[i].v.path = path
           /\ \A j \in 1..(i - 1) : c[j].v.path # path>>
  ELSE <<>>

\* an eviction loop that tests len > max_size
RECURSIVE evict_above(_, _)
evict_above(c, m) ==
  IF Len(c) > m
  THEN IF c = <<>>
       THEN [cache |-> c, popped |-> <<>>, error |-> TRUE]
       ELSE LET rest == evict_above(popitem(c), m) IN
            [cache |-> rest.cache, popped |-> <<Head(c)>> \o rest.popped,
             error |-> rest.error]
  ELSE [cache |-> c, popped |-> <<>>, error |-> FALSE]

\* an eviction loop that runs until the cache is empty
evict_all(c, m) ==
  IF Len(c) >= m
  THEN [cache |-> <<>>, popped |-> c, error |-> c = <<>>]
  ELSE [cache |-> c, popped |-> <<>>, error |-> FALSE]

\* the while loop of load: popitem(last=False) while len >= max_size; popitem on
\* an empty OrderedDict raises KeyError
RECURSIVE evict(_, _)
evict(c, m) ==
  IF Len(c) >= m
  THEN IF c = <<>>
       THEN [cache |-> c, popped |-> <<>>, error |-> TRUE]
       ELSE LET rest == evict(popitem(c), m) IN
            [cache |-> rest.cache, popped |-> <<Head(c)>> \o rest.popped,
             error |-> rest.error]
  ELSE [cache |-> c, popped |-> <<>>, error |-> FALSE]

\* a load that makes room before it parses the file
load_evict_first(c, m, path, uuid) ==
  LET hit == lookup_path(c, path) IN
  IF hit # <<>>
  THEN [cache |-> move_to_end(c, c[hit[1]].k), out |-> "hit", ret |-> <<c[hit[1]].v>>,
        parsed |-> FALSE, popped |-> <<>>]
  ELSE LET ev == evict(c, m)
           p == parse_file(path)
       IN IF ev.error
          THEN [cache |-> ev.cache, out |-> "KeyError", ret |-> <<>>,
                parsed |-> FALSE, popped |-> ev.popped]
          ELSE IF ~p.ok
          THEN [cache |-> ev.cache, out |-> p.error, ret |-> <<>>, parsed |-> TRUE,
                popped |-> ev.popped]
          ELSE [cache |-> setitem(ev.cache, uuid, CachedProfile(uuid, path, p.root[1])),
                out |-> "inserted", ret |-> <<CachedProfile(uuid, path, p.root[1])>>,
                parsed |-> TRUE, popped |-> ev.popped]

\* ProfileCache.load; uuid is the value uuid.uuid4().hex[:8] yields in this call
load(c, m, path, uuid) ==
  LET hit == lookup_path(c, path) IN
  IF hit # <<>>
  THEN [cache |-> move_to_end(c, c[hit[1]].k), out |-> "hit", ret |-> <<c[hit[1]].v>>,
        parsed |-> FALSE, popped |-> <<>>]
  ELSE LET p == parse_file(path) IN
       IF ~p.ok
       THEN [cache |-> c, out |-> p.error, ret |-> <<>>, parsed |-> TRUE, popped |-> <<>>]
       ELSE LET cached == CachedProfile(uuid, path, p.root[1])
                ev == evict(c, m)
            IN IF ev.error
               THEN [cache |-> ev.cache, out |-> "KeyError", ret |-> <<>>,
                     parsed |-> TRUE, popped |-> ev.popped]
               ELSE [cache |-> setitem(ev.cache, uuid, cached), out |-> "inserted",
                     ret |-> <<cached>>, parsed |-> TRUE, popped |-> ev.popped]

\* ProfileCache.get; ret <<>> is None
get(c, id) ==
  IF id \in Keys(c)
  THEN [cache |-> move_to_end(c, id), ret |-> <<c[IndexOf(c, id)].v>>]
  ELSE [cache |-> c, ret |-> <<>>]

\* ProfileCache.remove
remove(c, id) ==
  IF id \in Keys(c)
  THEN [cache |-> delitem(c, id), ret |-> TRUE]
  ELSE [cache |-> c, ret |-> FALSE]

\* ProfileCache.clear
clear(c) == <<>>

\* ProfileCache.size
size(c) == Len(c)

\* ProfileCache.list_cached
list_cached(c) ==
  [i \in DOMAIN c |->
     [profile_id |-> c[i].v.profile_id, name |-> c[i].v.name, path |-> c[i].v.path,
      node_count |-> c[i].v.node_count]]

-----------------------------------------------------------------------------
(* server.py *)

\* node_key omitted (None)
None == "<None>"

RECURSIVE SumSeq(_)
SumSeq(xs) == IF xs = <<>> THEN 0 ELSE Head(xs) + SumSeq(Tail(xs))

\* sum(entries.values())
RECURSIVE SumValues(_)
SumValues(f) ==
  IF DOMAIN f = {} THEN 0
  ELSE LET k == CHOOSE k \in DOMAIN f : TRUE IN
       f[k] + SumValues([j \in DOMAIN f \ {k} |-> f[j]])

\* ProfileNode.self_duration: metric.total, 0 without a metric
self_duration(n) == IF n.metric = <<>> THEN 0 ELSE SumValues(n.metric[1])

\* a total that leaves the children out
total_duration_self_only(n) == self_duration(n)

RECURSIVE total_duration(_)
children_duration(n) ==
  SumSeq([i \in 1..Len(n.children) |-> total_duration(n.children[i])])

total_duration(n) == self_duration(n) + children_duration(n)

\* cache.get, and ValueError when it returns None
get_profile_or_error(c, id) ==
  LET g == get(c, id) IN [cache |-> g.cache, ok |-> g.ret # <<>>, profile |-> g.ret]

NotFound(c, what) == [cache |-> c, out |-> what, ret |-> <<>>]

Abs(x) == IF x < 0 THEN -x ELSE x

Min(x, y) == IF x <= y THEN x ELSE y

Max(x, y) == IF x >= y THEN x ELSE y

\* n / d for d > 0, rounded to the nearest integer, a tie to the even one
RoundDiv(n, d) ==
  LET q == n \div d
      r == n % d
  IN IF 2 * r < d THEN q
     ELSE IF 2 * r > d THEN q + 1
     ELSE IF q % 2 = 0 THEN q ELSE q + 1

\* round(x, 1) of the percentage x = n / d: the result in tenths of a percent
round1(n, d) == RoundDiv(n * 10, d)

\* xs[:limit]: a negative limit counts from the end
slice_to(xs, limit) ==
  IF limit >= 0 THEN SubSeq(xs, 1, Min(limit, Len(xs)))
  ELSE SubSeq(xs, 1, Max(Len(xs) + limit, 0))

\* 10 to the power n
RECURSIVE Pow10(_)
Pow10(n) == IF n = 0 THEN 1 ELSE 10 * Pow10(n - 1)

\* the decimal places, of a second, of the time unit a file's durations are
\* whole numbers of
Decimals(path) ==
  IF path = PathFine THEN 7
  ELSE IF path \in {PathWideA, PathWideB} THEN 6
  ELSE 0

\* round(x, ndigits) of a duration of x time units of a file of the given
\* decimals: the result in the same unit
round(x, ndigits, decimals) ==
  IF decimals <= ndigits THEN x
  ELSE RoundDiv(x, Pow10(decimals - ndigits)) * Pow10(decimals - ndigits)

\* list.sort(key=rank, reverse=True): descending, equal ranks keep their order
RECURSIVE sort_desc(_)
sort_desc(xs) ==
  IF xs = <<>> THEN <<>>
  ELSE LET front == sort_desc(SubSeq(xs, 1, Len(xs) - 1))
           x == xs[Len(xs)]
           n == Cardinality({i \in DOMAIN front : front[i].rank >= x.rank})
       IN SubSeq(front, 1, n) \o <<x>> \o SubSeq(front, n + 1, Len(front))

\* a summary that lists the first five nodes of the tree, unsorted
top_operations_unsorted(cached) ==
  LET all == all_nodes(cached.root)
      nodes_with_duration == SelectSeq(all, LAMBDA n : self_duration(n) > 0)
  IN [i \in DOMAIN slice_to(nodes_with_duration, 5) |->
        [key |-> nodes_with_duration[i].key, name |-> nodes_with_duration[i].name,
         duration |-> round(self_duration(nodes_with_duration[i]), 4, Decimals(cached.path)),
         percentage |-> IF total_duration(cached.root) > 0
                        THEN round1(self_duration(nodes_with_duration[i]) * 100,
                                    total_duration(cached.root))
                        ELSE 0]]

\* top_operations of load_profile: the five nodes of largest self_duration,
\* of those whose self_duration is positive
top_operations(cached) ==
  LET all == all_nodes(cached.root)
      with_duration == SelectSeq(all, LAMBDA n : self_duration(n) > 0)
      nodes_with_duration ==
        sort_desc([i \in DOMAIN with_duration |->
                     [node |-> with_duration[i], rank |-> self_duration(with_duration[i])]])
      total == total_duration(cached.root)
      top == slice_to(nodes_with_duration, 5)
  IN [i \in DOMAIN top |->
        [key |-> top[i].node.key, name |-> top[i].node.name,
         duration |-> round(top[i].rank, 4, Decimals(cached.path)),
         percentage |-> IF total > 0 THEN round1(top[i].rank * 100, total) ELSE 0]]

\* the summary load_profile builds of the profile cache.load returned
summary(cached) ==
  [profile_id |-> cached.profile_id, name |-> cached.name,
   total_duration_seconds |-> round(total_duration(cached.root), 4, Decimals(cached.path)),
   node_count |-> cached.node_count,
   compiled_operations |->
     Cardinality({i \in DOMAIN all_nodes(cached.root) : has_source(all_nodes(cached.root)[i])}),
   top_operations |-> top_operations(cached)]

\* the result of load_profile given that of cache.load: an exception of
\* cache.load becomes an error result
load_result(r) == IF r.ret = <<>> THEN r ELSE [r EXCEPT !.ret = <<summary(r.ret[1])>>]

\* load_profile
load_profile(c, m, path, uuid) == load_result(load(c, m, path, uuid))

\* get_node_summary: durations rounded to six places, percentage_of_root in
\* tenths of a percent
get_node_summary(c, id, key) ==
  LET g == get_profile_or_error(c, id) IN
  IF ~g.ok THEN NotFound(g.cache, "profile_not_found")
  ELSE LET root == g.profile[1].root
           decimals == Decimals(g.profile[1].path)
           node == IF key = None THEN <<root>> ELSE find_by_key(root, key)
           parent_duration == total_duration(root)
       IN IF node = <<>> THEN NotFound(g.cache, "node_not_found")
          ELSE [cache |-> g.cache, out |-> "ok",
                ret |-> <<[key |-> node[1].key, name |-> node[1].name,
                           total_seconds |-> round(total_duration(node[1]), 6, decimals),
                           self_seconds |-> round(self_duration(node[1]), 6, decimals),
                           children_seconds |-> round(children_duration(node[1]), 6, decimals),
                           percentage_of_root |->
                             IF parent_duration > 0
                             THEN round1(total_duration(node[1]) * 100, parent_duration)
                             ELSE 0,
                           children_count |-> Len(node[1].children),
                           has_source |-> has_source(node[1])]>>]

\* the names of the documents in the order of str comparison (by code point)
NameOrder ==
  <<"Alpha", "a", "add", "alpha", "b", "beta", "c", "d", "delta", "e", "eps", "f", "mul",
    "new", "nop", "old", "op", "op1", "op2", "op3", "op4", "op5", "op6", "op7", "op8",
    "root", "solo", "sum">>

\* the place of a name in that order
name_key(name) == CHOOSE i \in DOMAIN NameOrder : NameOrder[i] = name

\* get_invocations of list_children
get_invocations(n) == IF n.metric # <<>> THEN SumValues(n.counts) ELSE 0

\* the sort key of list_children: ascending by name is descending by the
\* negated place of the name; any other sort_by leaves the list as it is, which
\* is what a stable sort on equal keys does
sort_key(n, sort_by) ==
  CASE sort_by = "duration" -> total_duration(n)
    [] sort_by = "name" -> 0 - name_key(n.name)
    [] sort_by = "invocations" -> get_invocations(n)
    [] OTHER -> 0

list_children(c, id, key, sort_by, limit) ==
  LET g == get_profile_or_error(c, id) IN
  IF ~g.ok THEN NotFound(g.cache, "profile_not_found")
  ELSE LET root == g.profile[1].root
           decimals == Decimals(g.profile[1].path)
           parent == IF key = None THEN <<root>> ELSE find_by_key(root, key)
       IN IF parent = <<>> THEN NotFound(g.cache, "node_not_found")
          ELSE LET kids == parent[1].children
                   children == sort_desc([i \in DOMAIN kids |->
                                            [node |-> kids[i], rank |-> sort_key(kids[i], sort_by)]])
                   parent_duration == total_duration(parent[1])
                   shown == slice_to(children, limit)
                   child_list ==
                     [i \in DOMAIN shown |->
                        [key |-> shown[i].node.key, name |-> shown[i].node.name,
                         duration |-> round(total_duration(shown[i].node), 6, decimals),
                         percentage |-> IF parent_duration > 0
                                        THEN round1(total_duration(shown[i].node) * 100,
                                                    parent_duration)
                                        ELSE 0,
                         has_children |-> Len(shown[i].node.children) > 0,
                         has_source |-> has_source(shown[i].node)]]
               IN [cache |-> g.cache, out |-> "ok",
                   ret |-> <<[parent_key |-> parent[1].key, parent_name |-> parent[1].name,
                              children |-> child_list,
                              total_children |-> Len(parent[1].children),
                              showing |-> Len(child_list)]>>]

\* format "summary" of get_source on the lines of a source of more than 50
summary_of(lines) ==
  slice_to(lines, 50) \o <<"... (" \o ToString(Len(lines) - 50) \o " more lines)">>

\* get_source: source is the sequence of the lines of the text returned; the
\* language guess is left out
get_source(c, id, key, format) ==
  LET g == get_profile_or_error(c, id) IN
  IF ~g.ok THEN NotFound(g.cache, "profile_not_found")
  ELSE LET root == g.profile[1].root
           node == find_by_key(root, key)
       IN IF node = <<>> THEN NotFound(g.cache, "node_not_found")
          ELSE LET source_obj == node_get_source(node[1]) IN
               IF source_obj = <<>>
               THEN [cache |-> g.cache, out |-> "ok",
                     ret |-> <<[key |-> node[1].key, name |-> node[1].name,
                                has_source |-> FALSE]>>]
               ELSE LET lines == source_obj[1].source
                        line_count == Len(lines)
                        keys == source_obj[1].argument_keys
                        names == source_obj[1].argument_names
                        description(k) ==
                          LET arg_node == find_by_key(root, k) IN
                          IF arg_node # <<>> THEN arg_node[1].name ELSE k
                    IN [cache |-> g.cache, out |-> "ok",
                        ret |-> <<[key |-> node[1].key, name |-> node[1].name,
                                   arguments |->
                                     [i \in DOMAIN keys |->
                                        [name |-> IF i <= Len(names) THEN names[i]
                                                  ELSE "arg" \o ToString(i - 1),
                                         key |-> keys[i],
                                         description |-> description(keys[i])]],
                                   source |-> IF format = "summary" /\ line_count > 50
                                              THEN summary_of(lines) ELSE lines,
                                   line_count |-> line_count]>>]

\* get_duration of find_slowest
get_duration(n, include_children) ==
  IF include_children THEN total_duration(n) ELSE self_duration(n)

\* find_slowest: durations are whole multiples of the files' time unit, which
\* round(duration, 6) leaves as they are; percentage is in tenths of a percent
find_slowest(c, id, limit, min_duration, include_children) ==
  LET g == get_profile_or_error(c, id) IN
  IF ~g.ok THEN NotFound(g.cache, "profile_not_found")
  ELSE LET root == g.profile[1].root
           ns == all_nodes(root)
           kept == SelectSeq(ns, LAMBDA n :
                     get_duration(n, include_children) >= min_duration /\ n.key # "")
           nodes_with_duration ==
             sort_desc([i \in DOMAIN kept |->
                          [node |-> kept[i], rank |-> get_duration(kept[i], include_children)]])
           total_profile_duration == total_duration(root)
           top == slice_to(nodes_with_duration, limit)
       IN [cache |-> g.cache, out |-> "ok",
           ret |-> <<[slowest |->
                        [i \in DOMAIN top |->
                           [key |-> top[i].node.key, name |-> top[i].node.name,
                            duration |-> top[i].rank,
                            percentage |-> IF total_profile_duration > 0
                                           THEN round1(top[i].rank * 100, total_profile_duration)
                                           ELSE 0]],
                      total_profile_duration |-> total_profile_duration]>>]

\* a pattern is whether re.compile accepts it and the names regex.search matches
Patterns == {[valid |-> FALSE, names |-> {}], [valid |-> TRUE, names |-> {"mul", "add"}]}

\* a search that returns whatever the pattern
search_operations_unchecked(c, id, pattern, limit) ==
  LET g == get_profile_or_error(c, id) IN
  IF ~g.ok THEN NotFound(g.cache, "profile_not_found")
  ELSE [cache |-> g.cache, out |-> "ok",
        ret |-> <<[matches |-> <<>>, match_count |-> 0, showing |-> Min(0, limit)]>>]

\* search_operations: the matches carry the rounded total_duration they are
\* sorted by
search_operations(c, id, pattern, limit) ==
  LET g == get_profile_or_error(c, id) IN
  IF ~g.ok THEN NotFound(g.cache, "profile_not_found")
  ELSE IF ~pattern.valid THEN [cache |-> g.cache, out |-> "invalid_regex", ret |-> <<>>]
  ELSE LET decimals == Decimals(g.profile[1].path)
           found == SelectSeq(all_nodes(g.profile[1].root), LAMBDA n : n.name \in pattern.names)
           matches == sort_desc([i \in DOMAIN found |->
                                   [node |-> found[i],
                                    rank |-> round(total_duration(found[i]), 6, decimals)]])
           shown == slice_to(matches, limit)
       IN [cache |-> g.cache, out |-> "ok",
           ret |-> <<[matches |-> [i \in DOMAIN shown |->
                                     [key |-> shown[i].node.key, name |-> shown[i].node.name,
                                      duration |-> shown[i].rank,
                                      has_source |-> has_source(shown[i].node)]],
                      match_count |-> Len(matches),
                      showing |-> Min(Len(matches), limit)]>>]

\* the keys of a list of nodes, each once, in the order of first appearance
RECURSIVE first_keys(_)
first_keys(ns) ==
  IF ns = <<>> THEN <<>>
  ELSE LET front == first_keys(SubSeq(ns, 1, Len(ns) - 1))
           k == ns[Len(ns)].key
       IN IF \E i \in DOMAIN front : front[i] = k THEN front ELSE Append(front, k)

\* {n.key: n for n in all_nodes if n.key}.get(key): the last node of the key
node_of(ns, key) ==
  IF \E i \in DOMAIN ns : ns[i].key = key
  THEN <<ns[CHOOSE i \in DOMAIN ns :
              ns[i].key = key /\ \A j \in (i + 1)..Len(ns) : ns[j].key # key]>>
  ELSE <<>>

\* a loop body that keeps a change only when it is above the threshold
change_entry_strict(nodes_a, nodes_b, key, threshold) ==
  LET node_a == node_of(nodes_a, key)
      node_b == node_of(nodes_b, key)
      duration_a == IF node_a # <<>> THEN self_duration(node_a[1]) ELSE 0
      duration_b == IF node_b # <<>> THEN self_duration(node_b[1]) ELSE 0
      n == IF duration_a > 0 THEN (duration_b - duration_a) * 100 ELSE 100
      d == IF duration_a > 0 THEN duration_a ELSE 1
  IN IF duration_a = 0 /\ duration_b = 0 THEN <<>>
     ELSE IF duration_a <= 0 /\ duration_b <= 0 THEN <<>>
     ELSE IF Abs(n) > threshold * d
     THEN <<[rank |-> Abs(round1(n, d)),
             entry |->
               [key |-> key,
                name |-> IF node_a # <<>> THEN node_a[1].name ELSE node_b[1].name,
                duration_a |-> duration_a, duration_b |-> duration_b,
                change_percent |-> round1(n, d),
                status |-> IF n < 0 THEN "improved"
                           ELSE IF n > 0 THEN "regressed" ELSE "unchanged"]]>>
     ELSE <<>>

\* the body of the loop over all_keys for one key: <<>> when the key is
\* skipped or below the threshold, else the entry appended; the change is
\* n / d percent, change_percent its rounding in tenths of a percent
change_entry(nodes_a, nodes_b, key, threshold) ==
  LET node_a == node_of(nodes_a, key)
      node_b == node_of(nodes_b, key)
      duration_a == IF node_a # <<>> THEN self_duration(node_a[1]) ELSE 0
      duration_b == IF node_b # <<>> THEN self_duration(node_b[1]) ELSE 0
      n == IF duration_a > 0 THEN (duration_b - duration_a) * 100 ELSE 100
      d == IF duration_a > 0 THEN duration_a ELSE 1
  IN IF duration_a = 0 /\ duration_b = 0 THEN <<>>
     ELSE IF duration_a <= 0 /\ duration_b <= 0 THEN <<>>
     ELSE IF Abs(n) >= threshold * d
     THEN <<[rank |-> Abs(round1(n, d)),
             entry |->
               [key |-> key,
                name |-> IF node_a # <<>> THEN node_a[1].name ELSE node_b[1].name,
                duration_a |-> duration_a, duration_b |-> duration_b,
                change_percent |-> round1(n, d),
                status |-> IF n < 0 THEN "improved"
                           ELSE IF n > 0 THEN "regressed" ELSE "unchanged"]]>>
     ELSE <<>>

\* compare_profiles; the set all_keys yields its keys in an order the program
\* does not fix: reversed chooses between two of them
compare_profiles(c, id_a, id_b, threshold, reversed) ==
  LET ga == get_profile_or_error(c, id_a) IN
  IF ~ga.ok THEN NotFound(ga.cache, "profile_not_found")
  ELSE LET gb == get_profile_or_error(ga.cache, id_b) IN
       IF ~gb.ok THEN NotFound(gb.cache, "profile_not_found")
       ELSE LET total_a == total_duration(ga.profile[1].root)
                total_b == total_duration(gb.profile[1].root)
                n == IF total_a > 0 THEN (total_b - total_a) * 100 ELSE 0
                d == IF total_a > 0 THEN total_a ELSE 1
                nodes_a == SelectSeq(all_nodes(ga.profile[1].root), LAMBDA x : x.key # "")
                nodes_b == SelectSeq(all_nodes(gb.profile[1].root), LAMBDA x : x.key # "")
                keys == first_keys(nodes_a \o nodes_b)
                all_keys == IF reversed THEN [i \in DOMAIN keys |-> keys[Len(keys) + 1 - i]]
                            ELSE keys
                sorted ==
                  sort_desc(Concat([i \in DOMAIN all_keys |->
                                      change_entry(nodes_a, nodes_b, all_keys[i], threshold)]))
                significant_changes == [i \in DOMAIN sorted |-> sorted[i].entry]
            IN [cache |-> gb.cache, out |-> "ok",
                ret |-> <<[total_a |-> total_a, total_b |-> total_b,
                           overall_change_percent |-> round1(n, d),
                           overall_status |->
                             IF n < (-threshold) * d THEN "improved"
                             ELSE IF n > threshold * d THEN "regressed" ELSE "unchanged",
                           significant_changes |-> slice_to(significant_changes, 20),
                           threshold_percent |-> threshold]>>]

-----------------------------------------------------------------------------
(* The calls, one at a time *)

Threads == {"t1", "t2"}

Idle == [pc |-> "idle"]

QueryIds == Ids \cup {UnknownId}

\* omitted, a key of DocFlat and DocDeep, and (for DocSolo) a key of no node
QueryKeys == {None, "a"}

QueryOps ==
  {"get_node_summary", "list_children", "get_source", "find_slowest",
   "search_operations", "compare_profiles"}

Call(op, path, ids, key, out, ret, parsed, popped) ==
  [op |-> op, path |-> path, ids |-> ids, key |-> key, out |-> out, ret |-> ret,
   parsed |-> parsed, popped |-> popped]

PathsOf(c) == {c[i].v.path : i \in DOMAIN c}

\* history of accesses: the paths still cached, then the accessed one last
Retain(t, c) == SelectSeq(t, LAMBDA p : p \in PathsOf(c))

TouchPath(t, p) == SelectSeq(t, LAMBDA q : q # p) \o <<p>>

RECURSIVE TouchIds(_, _, _)
TouchIds(t, c, ids) ==
  IF ids = <<>> THEN t
  ELSE TouchIds(IF Head(ids) \in Keys(c) THEN TouchPath(t, c[IndexOf(c, Head(ids))].v.path)
                ELSE t,
                c, Tail(ids))

\* the ids that have left, when the run records them
Gone(ids) == IF history THEN gone \cup ids ELSE gone

\* ProfileCache.__init__: max_size is taken as given, int(AR_PROFILE_CACHE_SIZE)
\* in the server, so it may be zero or negative
Constructed ==
  /\ max_size \in -1..MaxSize
  /\ cache = <<>>
  /\ touched = <<>>
  /\ gone = {}
  /\ last = Call("init", <<>>, <<>>, None, "ok", <<>>, FALSE, <<>>)
  /\ threads = [t \in Threads |-> Idle]

Init == Constructed /\ history = FALSE

InitHistory == Constructed /\ history = TRUE

\* the effect of a load whose result is r
Loaded(op, path, r) ==
  /\ cache' = r.cache
  /\ touched' = IF r.out \in {"hit", "inserted"}
                THEN TouchPath(Retain(touched, r.cache), path)
                ELSE Retain(touched, r.cache)
  /\ gone' = Gone({r.popped[i].k : i \in DOMAIN r.popped})
  /\ last' = Call(op, <<path>>, <<>>, None, r.out, r.ret, r.parsed,
                  [i \in DOMAIN r.popped |-> r.popped[i].k])
  /\ UNCHANGED <<max_size, history, threads>>

\* cache.load(path), as load_profile calls it
Load(path) ==
  \E uuid \in Ids : Loaded("load", path, load(cache, max_size, path, uuid))

Get(id) ==
  LET r == get(cache, id) IN
  /\ cache' = r.cache
  /\ touched' = TouchIds(touched, cache, <<id>>)
  /\ last' = Call("get", <<>>, <<id>>, None, IF r.ret = <<>> THEN "none" ELSE "ok",
                  r.ret, FALSE, <<>>)
  /\ UNCHANGED <<max_size, history, gone, threads>>

Remove(id) ==
  LET r == remove(cache, id) IN
  /\ cache' = r.cache
  /\ touched' = Retain(touched, r.cache)
  /\ gone' = IF r.ret THEN Gone({id}) ELSE gone
  /\ last' = Call("remove", <<>>, <<id>>, None, IF r.ret THEN "true" ELSE "false",
                  <<>>, FALSE, <<>>)
  /\ UNCHANGED <<max_size, history, threads>>

Clear ==
  /\ cache' = clear(cache)
  /\ touched' = <<>>
  /\ gone' = Gone(Keys(cache))
  /\ last' = Call("clear", <<>>, <<>>, None, "ok", <<>>, FALSE, <<>>)
  /\ UNCHANGED <<max_size, history, threads>>

Size ==
  /\ last' = Call("size", <<>>, <<>>, None, "ok", <<size(cache)>>, FALSE, <<>>)
  /\ UNCHANGED <<max_size, history, cache, touched, gone, threads>>

ListCached ==
  /\ last' = Call("list_cached", <<>>, <<>>, None, "ok", list_cached(cache), FALSE, <<>>)
  /\ UNCHANGED <<max_size, history, cache, touched, gone, threads>>

\* a query handler's effect: r is what the handler computes on the cache, ids
\* the profile ids it was given, looked the ids it passed to cache.get
Query(op, ids, looked, key, r) ==
  /\ cache' = r.cache
  /\ touched' = TouchIds(touched, cache, looked)
  /\ last' = Call(op, <<>>, ids, key, r.out, r.ret, FALSE, <<>>)
  /\ UNCHANGED <<max_size, history, gone, threads>>

GetNodeSummary(id, key) ==
  Query("get_node_summary", <<id>>, <<id>>, key, get_node_summary(cache, id, key))

\* list_children with sort_by and limit left at their defaults
ListChildren(id, key) ==
  Query("list_children", <<id>>, <<id>>, key, list_children(cache, id, key, "duration", 20))

\* get_source with the default format
GetSource(id, key) ==
  Query("get_source", <<id>>, <<id>>, key, get_source(cache, id, key, "full"))

\* find_slowest with limit, min_duration and include_children left at their
\* defaults
FindSlowest(id) ==
  Query("find_slowest", <<id>>, <<id>>, None, find_slowest(cache, id, 10, 0, FALSE))

\* search_operations with the default limit
SearchOperations(id, pattern) ==
  Query("search_operations", <<id>>, <<id>>, None,
        search_operations(cache, id, pattern, 20))

\* compare_profiles with the default threshold
CompareProfiles(id_a, id_b) ==
  \E reversed \in BOOLEAN :
    Query("compare_profiles", <<id_a, id_b>>,
          IF id_a \in Keys(cache) THEN <<id_a, id_b>> ELSE <<id_a>>,
          None, compare_profiles(cache, id_a, id_b, 10, reversed))

Next ==
  \/ \E path \in Paths : Load(path)
  \/ \E id \in QueryIds : Get(id)
  \/ \E id \in QueryIds : Remove(id)
  \/ Clear
  \/ Size
  \/ ListCached
  \/ \E id \in QueryIds, key \in QueryKeys : GetNodeSummary(id, key)
  \/ \E id \in QueryIds, key \in QueryKeys : ListChildren(id, key)
  \/ \E id \in QueryIds, key \in QueryKeys \ {None} : GetSource(id, key)
  \/ \E id \in QueryIds : FindSlowest(id)
  \/ \E id \in QueryIds, pattern \in Patterns : SearchOperations(id, pattern)
  \/ \E id_a \in QueryIds, id_b \in QueryIds : CompareProfiles(id_a, id_b)

Spec == Init /\ [][Next]_vars

\* the same calls, with the ids that left the cache recorded
SpecHistory == InitHistory /\ [][Next]_vars

\* loads of documents with metric maps and operationSources, and summaries of
\* the trees built from them, on a cache of one entry
ParsePaths == {PathB, PathSources, PathLossy, PathDblBad}

InitParse == Constructed /\ max_size = 1 /\ history = FALSE

NextParse ==
  \/ \E path \in ParsePaths : Load(path)
  \/ \E id \in QueryIds, key \in {None, "a", "b"} : GetNodeSummary(id, key)

SpecParse == InitParse /\ [][NextParse]_vars

\* find_slowest and compare_profiles with their arguments, on a cache that two
\* loads have filled
QueryPairs ==
  {<<PathA, PathZero>>, <<PathB, PathC>>, <<PathBase, PathNext>>, <<PathWideA, PathWideB>>}

LoadedIds == {"id1", "id2", UnknownId}

Limits == {-1, 0, 1, 2, 10}

InitQuery ==
  /\ Constructed
  /\ history = FALSE
  /\ max_size = 2

\* the effect of the second of the two loads that fill the cache
Filled(pair, second) ==
  /\ cache' = second.cache
  /\ touched' = <<pair[1], pair[2]>>
  /\ last' = Call("load", <<pair[2]>>, <<>>, None, second.out, second.ret,
                  second.parsed, <<>>)
  /\ UNCHANGED <<max_size, history, gone, threads>>

\* the two loads that fill the cache
LoadPair(pair) ==
  /\ cache = <<>>
  /\ Filled(pair, load(load(cache, max_size, pair[1], "id1").cache, max_size, pair[2], "id2"))

\* a query handler's effect, its arguments recorded with the call
QueryWith(op, ids, looked, args, r) ==
  /\ cache # <<>>
  /\ cache' = r.cache
  /\ touched' = TouchIds(touched, cache, looked)
  /\ last' = [args |-> args] @@ Call(op, <<>>, ids, None, r.out, r.ret, FALSE, <<>>)
  /\ UNCHANGED <<max_size, history, gone, threads>>

FindSlowestWith(id, limit, min_duration, include_children) ==
  QueryWith("find_slowest", <<id>>, <<id>>,
            [limit |-> limit, min_duration |-> min_duration,
             include_children |-> include_children],
            find_slowest(cache, id, limit, min_duration, include_children))

CompareProfilesWith(id_a, id_b, threshold, reversed) ==
  QueryWith("compare_profiles", <<id_a, id_b>>,
            IF id_a \in Keys(cache) THEN <<id_a, id_b>> ELSE <<id_a>>,
            [threshold |-> threshold],
            compare_profiles(cache, id_a, id_b, threshold, reversed))

NextQuery ==
  \/ \E pair \in QueryPairs : LoadPair(pair)
  \/ \E id \in LoadedIds, limit \in Limits, min_duration \in {0, 3},
        include_children \in BOOLEAN :
        FindSlowestWith(id, limit, min_duration, include_children)
  \/ \E id_a \in LoadedIds, id_b \in LoadedIds, threshold \in {-10, 0, 20, 25, 50},
        reversed \in BOOLEAN :
        CompareProfilesWith(id_a, id_b, threshold, reversed)

SpecQuery == InitQuery /\ [][NextQuery]_vars

\* load_profile and the queries of one tree with their arguments, on a cache of
\* one entry
BrowsePaths == {PathList, PathFine, PathMany, PathCancel, PathText, PathB, PathBad}

BrowseIds == {"id1", UnknownId}

BrowseKeys == {None, "a", "d", "zz"}

BrowseLimits == {-1, 0, 2, 20}

InitBrowse == Constructed /\ max_size = 1 /\ history = FALSE

\* load_profile(path); uuid is the value uuid.uuid4().hex[:8] yields in the call
LoadProfile(path, uuid) ==
  Loaded("load_profile", path, load_profile(cache, max_size, path, uuid))

GetNodeSummaryWith(id, key) ==
  QueryWith("get_node_summary", <<id>>, <<id>>, [key |-> key],
            get_node_summary(cache, id, key))

ListChildrenWith(id, key, sort_by, limit) ==
  QueryWith("list_children", <<id>>, <<id>>,
            [key |-> key, sort_by |-> sort_by, limit |-> limit],
            list_children(cache, id, key, sort_by, limit))

GetSourceWith(id, key, format) ==
  QueryWith("get_source", <<id>>, <<id>>, [key |-> key, format |-> format],
            get_source(cache, id, key, format))

SearchOperationsWith(id, pattern, limit) ==
  QueryWith("search_operations", <<id>>, <<id>>, [pattern |-> pattern, limit |-> limit],
            search_operations(cache, id, pattern, limit))

NextBrowse ==
  \/ \E path \in BrowsePaths : LoadProfile(path, "id1")
  \/ \E id \in BrowseIds, key \in BrowseKeys : GetNodeSummaryWith(id, key)
  \/ \E id \in BrowseIds, key \in BrowseKeys, limit \in BrowseLimits,
        sort_by \in {"duration", "name", "invocations", "none"} :
        ListChildrenWith(id, key, sort_by, limit)
  \/ \E id \in BrowseIds, format \in {"summary", "full"},
        key \in {"s50", "s51", "s52", "two", "args", "none", "zz"} :
        GetSourceWith(id, key, format)
  \/ \E id \in BrowseIds, pattern \in Patterns, limit \in BrowseLimits :
        SearchOperationsWith(id, pattern, limit)

SpecBrowse == InitBrowse /\ [][NextBrowse]_vars

-----------------------------------------------------------------------------
(* Two callers inside the cache at once. ProfileCache holds no lock, so the  *)
(* calls interleave between the statements of load, get and remove; each     *)
(* OrderedDict operation is one step.                                        *)

ConcPaths == {PathA, PathC, PathBad}

At(t, pc) == threads[t].pc = pc

Goto(t, rec) == threads' = [threads EXCEPT ![t] = rec]

\* load, lines 56-57: the scan for an entry with this path
CLoadLookup(t, path) ==
  /\ At(t, "idle")
  /\ LET hit == lookup_path(cache, path) IN
     IF hit # <<>>
     THEN Goto(t, [pc |-> "load_hit", id |-> cache[hit[1]].k])
     ELSE Goto(t, [pc |-> "load_miss", path |-> path])
  /\ UNCHANGED <<max_size, history, cache, touched, gone, last>>

\* load, lines 59-60: move_to_end raises KeyError when the key has left
CLoadHit(t) ==
  /\ At(t, "load_hit")
  /\ cache' = IF threads[t].id \in Keys(cache) THEN move_to_end(cache, threads[t].id)
              ELSE cache
  /\ Goto(t, Idle)
  /\ UNCHANGED <<max_size, history, touched, gone, last>>

\* load, lines 63-78: parse, draw the id, build the CachedProfile
CLoadParse(t) ==
  /\ At(t, "load_miss")
  /\ LET p == parse_file(threads[t].path) IN
     IF ~p.ok THEN Goto(t, Idle)
     ELSE \E uuid \in Ids :
            Goto(t, [pc |-> "load_evict",
                     cached |-> CachedProfile(uuid, threads[t].path, p.root[1])])
  /\ UNCHANGED <<max_size, history, cache, touched, gone, last>>

\* load, line 81: the loop test
CLoadEvictTest(t) ==
  /\ At(t, "load_evict")
  /\ Goto(t, [pc |-> IF Len(cache) >= max_size THEN "load_pop" ELSE "load_insert",
              cached |-> threads[t].cached])
  /\ UNCHANGED <<max_size, history, cache, touched, gone, last>>

\* load, line 82: popitem raises KeyError on an empty cache
CLoadPop(t) ==
  /\ At(t, "load_pop")
  /\ IF cache = <<>>
     THEN /\ Goto(t, Idle)
          /\ UNCHANGED cache
     ELSE /\ cache' = popitem(cache)
          /\ Goto(t, [pc |-> "load_evict", cached |-> threads[t].cached])
  /\ UNCHANGED <<max_size, history, touched, gone, last>>

\* load, line 85
CLoadInsert(t) ==
  /\ At(t, "load_insert")
  /\ cache' = setitem(cache, threads[t].cached.profile_id, threads[t].cached)
  /\ Goto(t, Idle)
  /\ UNCHANGED <<max_size, history, touched, gone, last>>

\* get, line 99
CGetTest(t, id) ==
  /\ At(t, "idle")
  /\ IF id \in Keys(cache) THEN Goto(t, [pc |-> "get_move", id |-> id]) ELSE Goto(t, Idle)
  /\ UNCHANGED <<max_size, history, cache, touched, gone, last>>

\* get, lines 101-102
CGetMove(t) ==
  /\ At(t, "get_move")
  /\ cache' = IF threads[t].id \in Keys(cache) THEN move_to_end(cache, threads[t].id)
              ELSE cache
  /\ Goto(t, Idle)
  /\ UNCHANGED <<max_size, history, touched, gone, last>>

\* remove, line 115
CRemoveTest(t, id) ==
  /\ At(t, "idle")
  /\ IF id \in Keys(cache) THEN Goto(t, [pc |-> "remove_del", id |-> id])
     ELSE Goto(t, Idle)
  /\ UNCHANGED <<max_size, history, cache, touched, gone, last>>

\* remove, lines 116-117
CRemoveDel(t) ==
  /\ At(t, "remove_del")
  /\ cache' = IF threads[t].id \in Keys(cache) THEN delitem(cache, threads[t].id)
              ELSE cache
  /\ Goto(t, Idle)
  /\ UNCHANGED <<max_size, history, touched, gone, last>>

NextConc ==
  \E t \in Threads :
    \/ \E path \in ConcPaths : CLoadLookup(t, path)
    \/ CLoadHit(t)
    \/ CLoadParse(t)
    \/ CLoadEvictTest(t)
    \/ CLoadPop(t)
    \/ CLoadInsert(t)
    \/ \E id \in Ids : CGetTest(t, id)
    \/ CGetMove(t)
    \/ \E id \in Ids : CRemoveTest(t, id)
    \/ CRemoveDel(t)

SpecConc == Init /\ [][NextConc]_vars

-----------------------------------------------------------------------------
(* Properties *)

IsLoad(c) == c.op = "load"

IsQuery(c) == c.op \in QueryOps

ParseFailed(c) == IsLoad(c) /\ c.out \in {"ParseError", "ValueError"}

EntryOfPath(c, path) == CHOOSE v \in Values(c) : v.path = path

UniquePaths(c) == Cardinality(PathsOf(c)) = Len(c)

\* C1 (as claimed): in every reachable state the number of cached entries is
\* at most max_size.
C1_SizeAtMostMaxSize == Len(cache) <= max_size

\* C1 (amended): in every reachable state the number of cached entries is at
\* most max_size when max_size >= 0, and the cache is empty when max_size < 0;
\* this includes the state right after every insertion.
C1_SizeWithinCapacity == Len(cache) <= (IF max_size < 0 THEN 0 ELSE max_size)

\* an insertion into a full cache has just evicted and the cache is full again
C1_Witness ==
  /\ IsLoad(last) /\ last.out = "inserted" /\ last.popped # <<>>
  /\ max_size = MaxSize /\ Len(cache) = max_size

\* C2: load(p) of a cached path p returns the cached entry itself, parses
\* nothing, evicts nothing and keeps the set of entries and the size; the load
\* that follows a successful load of the same path returns the same profile_id.
C2_LoadOfCachedPathIsAHit ==
  [][/\ (IsLoad(last') /\ last'.path[1] \in PathsOf(cache)) =>
          /\ last'.out = "hit"
          /\ last'.ret = <<EntryOfPath(cache, last'.path[1])>>
          /\ ~last'.parsed
          /\ last'.popped = <<>>
          /\ Values(cache') = Values(cache)
          /\ Keys(cache') = Keys(cache)
          /\ Len(cache') = Len(cache)
     /\ (IsLoad(last) /\ last.ret # <<>> /\ IsLoad(last') /\ last'.path = last.path) =>
          /\ last'.ret # <<>>
          /\ last'.ret[1].profile_id = last.ret[1].profile_id]_vars

\* a load hit in a cache of two entries: the entry returned is now the most recent
C2_Witness ==
  /\ IsLoad(last) /\ last.out = "hit"
  /\ Len(cache) = 2
  /\ cache[2].v = last.ret[1]
  /\ touched = <<cache[1].v.path, cache[2].v.path>>

\* C3: an insertion into a cache of max_size >= 1 entries evicts exactly one
\* entry, the one accessed least recently (by its inserting load, a load hit or
\* a get hit), and leaves exactly max_size entries.
C3_EvictsLeastRecentlyTouched ==
  [][(IsLoad(last') /\ last'.out = "inserted" /\ max_size >= 1 /\ Len(cache) = max_size) =>
       /\ Len(cache') = max_size
       /\ Values(cache) \ Values(cache') = {EntryOfPath(cache, Head(touched))}]_vars

\* C4: a query that ends not-found (unresolved profile id or unresolved node
\* key) leaves the cache as it was, recency order included.
C4_NotFoundKeepsCache ==
  [][(IsQuery(last') /\ last'.out \in {"profile_not_found", "node_not_found"}) =>
       cache' = cache]_vars

\* C5: a load that fails on a malformed file or a file without a profile root
\* leaves the cache exactly as it was, also when the cache was full.
C5_FailedLoadKeepsCache ==
  [][ParseFailed(last') => (cache' = cache /\ touched' = touched)]_vars

\* a failed parse on a full cache
C5_Witness ==
  /\ ParseFailed(last) /\ last.out = "ValueError"
  /\ max_size >= 1 /\ Len(cache) = max_size

\* C6: size and list_cached change nothing; remove(id) returns true exactly
\* when id was cached and deletes that entry alone, the others keeping their
\* order; clear empties the cache.
C6_RemoveClearSizeListFrame ==
  [][/\ last'.op \in {"size", "list_cached"} => cache' = cache
     /\ last'.op = "size" => last'.ret = <<Len(cache)>>
     /\ last'.op = "list_cached" => Len(last'.ret) = Len(cache)
     /\ last'.op = "remove" =>
          /\ (last'.out = "true") <=> (last'.ids[1] \in Keys(cache))
          /\ cache' = SelectSeq(cache, LAMBDA e : e.k # last'.ids[1])
          /\ touched' = SelectSeq(touched, LAMBDA p : p \in PathsOf(cache'))
     /\ last'.op = "clear" => cache' = <<>>]_vars

\* a remove that found its id and left another entry behind
C6_Witness ==
  /\ last.op = "remove" /\ last.out = "true"
  /\ Len(cache) >= 1
  /\ last.ids[1] \notin Keys(cache)

\* C7 (as claimed): a query carrying the profile_id of an entry that was
\* evicted, removed or cleared ends not-found.
C7_GoneIdIsNotFound ==
  (IsQuery(last) /\ \E i \in DOMAIN last.ids : last.ids[i] \in gone) =>
    last.out = "profile_not_found"

\* C8 (as claimed): queries, get and load hits keep every cached profile and
\* the set of entries; an entry leaves only by the eviction of a load, by
\* remove of its id, or by clear.
C8_EntriesLeaveOnlyByEvictRemoveClear ==
  [][/\ (IsQuery(last') \/ last'.op = "get" \/ (IsLoad(last') /\ last'.out = "hit")) =>
          Values(cache') = Values(cache)
     /\ \A i \in DOMAIN cache :
          cache[i].v \notin Values(cache') =>
            \/ IsLoad(last') /\ i <= Len(last'.popped) /\ last'.popped[i] = cache[i].k
            \/ last'.op = "remove" /\ last'.ids = <<cache[i].k>>
            \/ last'.op = "clear"]_vars

\* C9 (as claimed): with two concurrent callers a cache of max_size >= 1 still
\* never holds more than max_size entries nor two entries of one path, as after
\* any serial order of the calls.
C9_ConcurrentCallsKeepBoundAndPaths ==
  max_size >= 1 => (Len(cache) <= max_size /\ UniquePaths(cache))

\* the tree the document describes: each element's children are the elements
\* of its own list
RECURSIVE DocumentTree(_)
DocumentTree(e) ==
  [key |-> e.key, name |-> e.name,
   children |-> [i \in 1..Len(e.kids) |-> DocumentTree(e.kids[i])]]

\* the keys, names and nesting of a built tree
RECURSIVE BuiltTree(_)
BuiltTree(n) ==
  [key |-> n.key, name |-> n.name,
   children |-> [i \in 1..Len(n.children) |-> BuiltTree(n.children[i])]]

RECURSIVE ElementCount(_)
ElementCount(e) == 1 + SumSeq([i \in 1..Len(e.kids) |-> ElementCount(e.kids[i])])

\* C10 (as claimed): every built node's children are the elements of its own
\* children list, in document order, and node_count is the number of elements.
C10_ChildrenAreOwnListOnly ==
  \A i \in DOMAIN cache :
    /\ BuiltTree(cache[i].v.root) = DocumentTree(FileAt(cache[i].v.path).root)
    /\ cache[i].v.node_count = ElementCount(FileAt(cache[i].v.path).root)

\* the sum of a node's metric entries, entry by entry in key order
RECURSIVE EntriesSumOver(_, _)
EntriesSumOver(f, ks) ==
  IF ks = {} THEN 0
  ELSE LET k == CHOOSE k \in ks : \A j \in ks : f[k] >= f[j] IN
       f[k] + EntriesSumOver(f, ks \ {k})

EntriesSum(n) == IF n.metric = <<>> THEN 0 ELSE EntriesSumOver(n.metric[1], DOMAIN n.metric[1])

\* C11: for every node n of every cached tree total_duration(n) is the sum of
\* n's metric entries (0 without a metric) plus the total_duration of n's
\* children, hence the sum of the entries of all nodes of n's subtree; and two
\* summaries in a row of the same node of the same profile report the same
\* durations.
C11_TotalIsSelfPlusChildren ==
  [][/\ \A i \in DOMAIN cache' :
          LET ns == all_nodes(cache'[i].v.root) IN
          \A j \in DOMAIN ns :
            /\ self_duration(ns[j]) = EntriesSum(ns[j])
            /\ total_duration(ns[j]) =
                 EntriesSum(ns[j])
                 + SumSeq([k \in DOMAIN ns[j].children |-> total_duration(ns[j].children[k])])
            /\ total_duration(ns[j]) =
                 SumSeq([k \in DOMAIN all_nodes(ns[j]) |-> EntriesSum(all_nodes(ns[j])[k])])
     /\ (/\ last.op = "get_node_summary" /\ last.out = "ok"
         /\ last'.op = "get_node_summary" /\ last'.ids = last.ids /\ last'.key = last.key)
        => last'.ret = last.ret
    ]_vars

\* a summary of a root with a two-entry metric and children that have children
C11_Witness ==
  /\ last.op = "get_node_summary" /\ last.out = "ok" /\ last.key = None
  /\ Len(cache) = 1 /\ cache[1].v.path = PathSources
  /\ last.ret[1].self_seconds = 3
  /\ last.ret[1].total_seconds = 6
  /\ \E k \in DOMAIN cache[1].v.root.children : cache[1].v.root.children[k].children # <<>>

\* one top-down pass over the nesting that was built: a node holds its own
\* entries and, for every other key, what its parent holds
RECURSIVE OnePass(_, _)
OnePass(e, inherited) ==
  LET own == parse_operation_sources(e.sources)
      mine == [k \in DOMAIN own \cup DOMAIN inherited |->
                 IF k \in DOMAIN own THEN own[k] ELSE inherited[k]]
  IN [sources |-> mine,
      children |-> [i \in 1..Len(found_adds(e)) |-> OnePass(found_adds(e)[i], mine)]]

RECURSIVE BuiltSources(_)
BuiltSources(n) ==
  [sources |-> n.operation_sources,
   children |-> [i \in 1..Len(n.children) |-> BuiltSources(n.children[i])]]

\* C12: in every cached tree each node holds every key its parent holds (so
\* every key of every ancestor), with its own entry where it had one and else
\* the entry of the nearest ancestor that has the key: the maps are those of one
\* top-down pass over the finished tree.
C12_SourcesReachEveryDescendant ==
  \A i \in DOMAIN cache :
    /\ BuiltSources(cache[i].v.root) = OnePass(FileAt(cache[i].v.path).root, <<>>)
    /\ LET ns == all_nodes(cache[i].v.root) IN
       \A j \in DOMAIN ns : \A k \in DOMAIN ns[j].children :
         DOMAIN ns[j].operation_sources \subseteq DOMAIN ns[j].children[k].operation_sources

\* the decoded source of a one-line text
Parsed(t) == [source |-> <<t>>, argument_keys |-> <<>>, argument_names |-> <<>>]

\* the grandchild b of the sources document: k1 from the root, k2 from its
\* parent a, which overrides the root's, and its own k3
C12_Witness ==
  /\ Len(cache) = 1 /\ cache[1].v.path = PathSources
  /\ LET a == cache[1].v.root.children[1] IN
     /\ a.key = "a" /\ a.children[1].key = "b"
     /\ a.children[1].operation_sources = [k \in {"k1", "k2", "k3"} |->
          IF k = "k1" THEN <<Parsed("r1")>> ELSE IF k = "k2" THEN <<Parsed("a2")>>
          ELSE <<Parsed("b3")>>]
     /\ cache[1].v.root.operation_sources = [k \in {"k1", "k2"} |->
          IF k = "k1" THEN <<Parsed("r1")>> ELSE <<Parsed("r2")>>]

\* a put of a label-to-double map that is malformed (fewer than two values) or
\* whose value is no numeral, in this element or below it
RECURSIVE BadEntry(_)
BadEntry(e) ==
  \/ /\ e.metric # <<>>
     /\ \E i \in DOMAIN e.metric[1] :
          \/ Len(e.metric[1][i]) < 2
          \/ ~e.metric[1][i][2].num
  \/ \E k \in DOMAIN e.kids : BadEntry(e.kids[k])

\* C13 (as claimed): a load that decodes a document holding a malformed map
\* entry or a value that cannot be coerced to a double fails; no tree is cached
\* from such a document.
C13_BadEntryFailsLoad ==
  [][/\ (IsLoad(last') /\ last'.parsed /\ BadEntry(FileAt(last'.path[1]).root))
          => ParseFailed(last')
     /\ \A i \in DOMAIN cache' : ~BadEntry(FileAt(cache'[i].v.path).root)]_vars

IsSlowest(c) == c.op = "find_slowest" /\ c.out = "ok"

\* C14 (as claimed): the results of find_slowest(limit=N) are in non-increasing
\* order of duration, none has an empty key, and there are at most N of them
\* (none at all when N is negative).
C14_SlowestOrderedCappedKeyed ==
  IsSlowest(last) =>
    LET slowest == last.ret[1].slowest IN
    /\ \A i \in DOMAIN slowest : \A j \in DOMAIN slowest :
         i < j => slowest[i].duration >= slowest[j].duration
    /\ \A i \in DOMAIN slowest : slowest[i].key # ""
    /\ Len(slowest) <= Max(last.args.limit, 0)

\* the profile a query of one id addressed
ProfileOf(c, id) == c[CHOOSE i \in DOMAIN c : c[i].k = id].v

\* numbers in descending order, the largest taken first
RECURSIVE Descending(_)
Descending(xs) ==
  IF xs = <<>> THEN <<>>
  ELSE LET m == CHOOSE i \in DOMAIN xs : \A j \in DOMAIN xs : xs[i] >= xs[j] IN
       <<xs[m]>> \o Descending([j \in 1..(Len(xs) - 1) |-> IF j < m THEN xs[j] ELSE xs[j + 1]])

\* the durations find_slowest ranks: of the keyed nodes whose duration, total
\* or self, is at least min_duration
EligibleDurations(root, args) ==
  LET ns == all_nodes(root)
      dur(n) == IF args.include_children THEN total_duration(n) ELSE self_duration(n)
      el == SelectSeq(ns, LAMBDA n : n.key # "" /\ dur(n) >= args.min_duration)
  IN [i \in DOMAIN el |-> dur(el[i])]

\* C15 (as claimed): find_slowest returns the first limit nodes (none when
\* limit is negative) of the descending ranking of the eligible nodes, ranked by
\* total_duration with include_children and by self_duration without; each
\* percentage is the duration over the root's total_duration times 100, to the
\* nearest tenth.
C15_SlowestAreTheTopRanked ==
  IsSlowest(last) =>
    LET root == ProfileOf(cache, last.ids[1]).root
        slowest == last.ret[1].slowest
        ranking == Descending(EligibleDurations(root, last.args))
    IN /\ Len(slowest) = Min(Max(last.args.limit, 0), Len(ranking))
       /\ \A i \in DOMAIN slowest :
            /\ i <= Len(ranking) /\ slowest[i].duration = ranking[i]
            /\ total_duration(root) > 0 =>
                 2 * Abs(slowest[i].percentage * total_duration(root)
                         - slowest[i].duration * 1000) <= total_duration(root)

IsCompared(c) == c.op = "compare_profiles" /\ c.out = "ok"

\* C16 (as claimed): compare_profiles of a cached profile with itself at
\* threshold 0 reports overall_change_percent 0 and no significant change.
C16_SelfCompareIsEmpty ==
  (IsCompared(last) /\ last.ids[1] = last.ids[2] /\ last.args.threshold = 0) =>
    /\ last.ret[1].overall_change_percent = 0
    /\ last.ret[1].significant_changes = <<>>

\* C17 (as claimed): for a positive threshold and a positive total of the first
\* profile, overall_status is improved when the overall change
\* (total_b - total_a) / total_a * 100 is <= -threshold, regressed when it is
\* >= +threshold, and unchanged otherwise.
C17_OverallStatusIsInclusive ==
  (IsCompared(last) /\ last.args.threshold > 0 /\ last.ret[1].total_a > 0) =>
    LET r == last.ret[1]
        change == (r.total_b - r.total_a) * 100
        bound == last.args.threshold * r.total_a
    IN r.overall_status = IF change <= -bound THEN "improved"
                          ELSE IF change >= bound THEN "regressed" ELSE "unchanged"

\* the change of a key from duration a to duration b, as the fraction n / d of
\* a percent: (b - a) / a * 100, and the sentinel 100 for a = 0
ChangeOf(a, b) ==
  IF a > 0 THEN [n |-> (b - a) * 100, d |-> a] ELSE [n |-> 100, d |-> 1]

\* the three-way rule for a change and a threshold
ThreeWay(change, threshold) ==
  IF change.n <= (-threshold) * change.d THEN "improved"
  ELSE IF change.n >= threshold * change.d THEN "regressed" ELSE "unchanged"

\* C18 (as claimed): every entry of significant_changes carries the status the
\* three-way rule gives for its own change and the threshold of the call.
C18_EntryStatusFollowsThreshold ==
  IsCompared(last) =>
    \A i \in DOMAIN last.ret[1].significant_changes :
      LET e == last.ret[1].significant_changes[i] IN
      e.status = ThreeWay(ChangeOf(e.duration_a, e.duration_b), last.args.threshold)

\* the keys of the nodes of a tree, the empty key aside
KeysOfTree(root) ==
  {all_nodes(root)[i].key : i \in DOMAIN all_nodes(root)} \ {""}

\* the self_duration of the node of a key, 0 when the tree has no such node
DurationOfKey(root, key) ==
  IF key \in KeysOfTree(root)
  THEN self_duration(all_nodes(root)[CHOOSE i \in DOMAIN all_nodes(root) :
                                       all_nodes(root)[i].key = key])
  ELSE 0

\* the keys compare_profiles has to report: not skipped, and abs(change) at
\* least the threshold
Candidates(root_a, root_b, threshold) ==
  {key \in KeysOfTree(root_a) \cup KeysOfTree(root_b) :
     LET a == DurationOfKey(root_a, key)
         b == DurationOfKey(root_b, key)
     IN /\ ~(a = 0 /\ b = 0)
        /\ Abs(ChangeOf(a, b).n) >= threshold * ChangeOf(a, b).d}

\* C19: the entries of significant_changes are keys that are candidates: keys of
\* either tree, not both durations 0, abs(change) >= threshold, where change is
\* (b - a) / a * 100 for a > 0 and the sentinel 100 for a = 0 < b; every
\* candidate is an entry unless more than 20 are; each entry reports the key's
\* two self durations and the change to the nearest tenth.
C19_ChangeOfEveryKey ==
  IsCompared(last) =>
    LET root_a == ProfileOf(cache, last.ids[1]).root
        root_b == ProfileOf(cache, last.ids[2]).root
        entries == last.ret[1].significant_changes
        candidates == Candidates(root_a, root_b, last.args.threshold)
    IN /\ {entries[i].key : i \in DOMAIN entries} \subseteq candidates
       /\ Len(entries) = Min(Cardinality(candidates), 20)
       /\ \A i \in DOMAIN entries : \A j \in DOMAIN entries :
            entries[i].key = entries[j].key => i = j
       /\ \A i \in DOMAIN entries :
            LET e == entries[i]
                change == ChangeOf(e.duration_a, e.duration_b)
            IN /\ e.duration_a = DurationOfKey(root_a, e.key)
               /\ e.duration_b = DurationOfKey(root_b, e.key)
               /\ 2 * Abs(e.change_percent * change.d - change.n * 10) <= change.d
               /\ (e.duration_a = 0) => e.change_percent = 1000

\* the two runs compared at threshold 25: a (+50%), g (-100%) and the new n
\* (sentinel +100%) are reported; r (0%) is below the threshold, z is skipped
C19_Witness ==
  /\ IsCompared(last) /\ last.ids = <<"id1", "id2">> /\ last.args.threshold = 25
  /\ cache[1].v.path = PathBase /\ cache[2].v.path = PathNext
  /\ {last.ret[1].significant_changes[i].key : i \in DOMAIN last.ret[1].significant_changes}
       = {"a", "g", "n"}
  /\ \E i \in DOMAIN last.ret[1].significant_changes :
       LET e == last.ret[1].significant_changes[i] IN
       e.key = "n" /\ e.duration_a = 0 /\ e.duration_b = 1 /\ e.change_percent = 1000

\* abs(x) >= abs(y) for two changes given as fractions
AtLeast(x, y) == Abs(x.n) * y.d >= Abs(y.n) * x.d

\* C20 (as claimed): significant_changes has at most 20 entries, in
\* non-increasing order of abs(change), and no candidate left out has a larger
\* abs(change) than an entry returned.
C20_LargestChangesFirst ==
  IsCompared(last) =>
    LET root_a == ProfileOf(cache, last.ids[1]).root
        root_b == ProfileOf(cache, last.ids[2]).root
        entries == last.ret[1].significant_changes
        returned == {entries[i].key : i \in DOMAIN entries}
        change(key) == ChangeOf(DurationOfKey(root_a, key), DurationOfKey(root_b, key))
    IN /\ Len(entries) <= 20
       /\ \A i \in DOMAIN entries : \A j \in DOMAIN entries :
            i < j => AtLeast(change(entries[i].key), change(entries[j].key))
       /\ \A out \in Candidates(root_a, root_b, last.args.threshold) \ returned :
            \A key \in returned : AtLeast(change(key), change(out))

\* the cached entries, each a profile_id with its profile and tree
Entries(c) == {c[i] : i \in DOMAIN c}

\* C21: on every cache the calls reach, search_operations of a cached profile
\* with a pattern re.compile rejects returns the invalid-pattern error and no
\* match list, whatever the limit, and every cached entry is still cached
\* afterwards, under the same id and with the same tree.
C21_InvalidRegexIsAnError ==
  \A id \in Keys(cache), pattern \in Patterns, limit \in Limits :
    ~pattern.valid =>
      /\ search_operations(cache, id, pattern, limit).out = "invalid_regex"
      /\ search_operations(cache, id, pattern, limit).ret = <<>>
      /\ Entries(search_operations(cache, id, pattern, limit).cache) = Entries(cache)

\* an invalid pattern was refused on the older of two cached profiles
C21_Witness ==
  /\ last.op = "search_operations" /\ last.out = "invalid_regex"
  /\ Len(cache) = 2 /\ cache[2].k = last.ids[1]
  /\ touched = <<cache[1].v.path, cache[2].v.path>>

IsSearch(c) == c.op = "search_operations" /\ c.out = "ok"

\* the total_duration of the node of a tree that a reported key names
TotalOfKey(root, key) == total_duration(find_by_key(root, key)[1])

\* C22 (as claimed): the matches search_operations returns are in
\* non-increasing order of total_duration, there are at most limit of them
\* (none when limit is negative), they are the first of the descending ranking
\* of all matching nodes (no matching node left out has a larger total_duration
\* than one returned), and match_count is the number of matching nodes.
C22_MatchesSortedThenTruncated ==
  IsSearch(last) =>
    LET root == ProfileOf(cache, last.ids[1]).root
        found == SelectSeq(all_nodes(root), LAMBDA n : n.name \in last.args.pattern.names)
        ranking == Descending([i \in DOMAIN found |-> total_duration(found[i])])
        matches == last.ret[1].matches
    IN /\ Len(matches) <= Max(last.args.limit, 0)
       /\ \A i \in DOMAIN matches : \A j \in DOMAIN matches :
            i < j => TotalOfKey(root, matches[i].key) >= TotalOfKey(root, matches[j].key)
       /\ \A i \in DOMAIN matches :
            i <= Len(ranking) /\ TotalOfKey(root, matches[i].key) = ranking[i]
       /\ last.ret[1].match_count = Len(found)

IsListed(c) == c.op = "list_children" /\ c.out = "ok"

\* the node a call addressed: the root when the key is omitted
Addressed(root, key) == IF key = None THEN root ELSE find_by_key(root, key)[1]

\* a percentage reported in tenths of a percent is part / whole * 100 to the
\* nearest tenth, and 0 when whole is not positive
IsPercentage(tenths, part, whole) ==
  IF whole > 0 THEN 2 * Abs(tenths * whole - part * 1000) <= whole ELSE tenths = 0

\* C23 (as claimed): list_children returns at most limit children of the built
\* node addressed (none when limit is negative), in the order of sort_by:
\* total_duration non-increasing, name ascending, or sum of the metric counts
\* non-increasing; each percentage is the child's total_duration over the
\* parent's times 100; showing is the number returned and total_children the
\* number of children of the parent.
C23_ChildrenOrderedCappedCounted ==
  IsListed(last) =>
    LET root == ProfileOf(cache, last.ids[1]).root
        parent == Addressed(root, last.args.key)
        children == last.ret[1].children
        node(i) == find_by_key(root, children[i].key)[1]
    IN /\ Len(children) <= Max(last.args.limit, 0)
       /\ \A i \in DOMAIN children : \A j \in DOMAIN children :
            i < j =>
              /\ last.args.sort_by = "duration" =>
                   total_duration(node(i)) >= total_duration(node(j))
              /\ last.args.sort_by = "name" =>
                   name_key(children[i].name) <= name_key(children[j].name)
              /\ last.args.sort_by = "invocations" =>
                   get_invocations(node(i)) >= get_invocations(node(j))
       /\ \A i \in DOMAIN children :
            /\ \E k \in DOMAIN parent.children : parent.children[k].key = children[i].key
            /\ IsPercentage(children[i].percentage, total_duration(node(i)),
                            total_duration(parent))
       /\ last.ret[1].showing = Len(children)
       /\ last.ret[1].total_children = Len(parent.children)

\* C24 (as claimed): get_node_summary of a cached profile without a key
\* summarises the root; with the key of a node it summarises the node of that
\* key; with a non-empty key of no node it fails with not-found and returns no
\* timing; and in a summary the reported self and children durations add up to
\* the reported total.
C24_SummaryOfRootOrKeyedNode ==
  (last.op = "get_node_summary" /\ last.ids[1] \in Keys(cache) /\ "args" \in DOMAIN last) =>
    LET root == ProfileOf(cache, last.ids[1]).root
        key == last.args.key
    IN /\ key = None =>
            /\ last.out = "ok"
            /\ last.ret[1].key = root.key
            /\ last.ret[1].children_count = Len(root.children)
       /\ key \in KeysOfTree(root) => (last.out = "ok" /\ last.ret[1].key = key)
       /\ (key \notin KeysOfTree(root) \cup {None, ""}) =>
            (last.out = "node_not_found" /\ last.ret = <<>>)
       /\ last.out = "ok" =>
            last.ret[1].self_seconds + last.ret[1].children_seconds
              = last.ret[1].total_seconds

IsSummary(c) == c.op = "load_profile" /\ c.ret # <<>>

\* the self_duration of the node of a tree that a reported key names
SelfOfKey(root, key) == self_duration(find_by_key(root, key)[1])

\* C25: the top_operations of the summary load_profile returns are the first
\* five of the ranking of the nodes by self_duration: at most 5 entries, in
\* non-increasing order of self_duration, no node left out with a larger
\* self_duration than one listed, each with the percentage self_duration over
\* the root's total_duration times 100, and 0 when that total is 0.
C25_TopFiveBySelfDuration ==
  IsSummary(last) =>
    LET root == ProfileOf(cache, last.ret[1].profile_id).root
        nodes == SelectSeq(all_nodes(root), LAMBDA n : self_duration(n) > 0)
        ranking == Descending([i \in DOMAIN nodes |-> self_duration(nodes[i])])
        top == last.ret[1].top_operations
    IN /\ Len(top) = Min(5, Len(nodes))
       /\ \A i \in DOMAIN top : SelfOfKey(root, top[i].key) = ranking[i]
       /\ \A i \in DOMAIN top : \A j \in DOMAIN top :
            i < j => SelfOfKey(root, top[i].key) >= SelfOfKey(root, top[j].key)
       /\ \A i \in DOMAIN top : \A k \in Len(top) + 1 .. Len(ranking) :
            ranking[k] <= SelfOfKey(root, top[i].key)
       /\ \A i \in DOMAIN top :
            total_duration(root) >= 0 =>
              IsPercentage(top[i].percentage, SelfOfKey(root, top[i].key),
                           total_duration(root))

\* C25 witness: the load of the profile of nine nodes lists k5 (9), k2 and k3
\* (7 each, in document order), k8 (5) and the root (4) of a total of 38, and
\* leaves out k1 (3), k4 (2) and k6 (1).
C25_Witness ==
  /\ IsSummary(last) /\ last.path = <<PathMany>> /\ last.out = "inserted"
  /\ [i \in 1..5 |-> last.ret[1].top_operations[i].key] = <<"k5", "k2", "k3", "k8", "r">>
  /\ [i \in 1..5 |-> last.ret[1].top_operations[i].percentage] = <<237, 184, 184, 132, 105>>

IsSource(c) == c.op = "get_source" /\ c.out = "ok"

\* C26: get_source of a node with a source of L lines reports line_count L;
\* with format "summary" and L > 50 the text returned is the first 50 lines and
\* one marker line that states L - 50 more lines; with L <= 50, or any other
\* format, the text is returned unchanged.  The source is the first of the list
\* stored under the node's own key; a node without one has has_source false.
C26_SummaryCutsAtFiftyLines ==
  IsSource(last) =>
    LET root == ProfileOf(cache, last.ids[1]).root
        node == find_by_key(root, last.args.key)[1]
        stored == node.operation_sources[node.key][1].source
        L == Len(stored)
    IN IF node.key \notin DOMAIN node.operation_sources
       THEN last.ret[1].has_source = FALSE
       ELSE /\ last.ret[1].line_count = L
            /\ (last.args.format = "summary" /\ L > 50) =>
                 /\ Len(last.ret[1].source) = 51
                 /\ SubSeq(last.ret[1].source, 1, 50) = SubSeq(stored, 1, 50)
                 /\ last.ret[1].source[51] = "... (" \o ToString(L - 50) \o " more lines)"
            /\ (last.args.format # "summary" \/ L <= 50) => last.ret[1].source = stored

\* C26 witness: the summary of a source of 52 lines is 51 lines long, ends
\* with the marker of 2 more lines, and reports line_count 52.
C26_Witness ==
  /\ IsSource(last) /\ last.args = [key |-> "s52", format |-> "summary"]
  /\ Len(last.ret[1].source) = 51
  /\ last.ret[1].source[50] = "l50"
  /\ last.ret[1].source[51] = "... (2 more lines)"
  /\ last.ret[1].line_count = 52

\* the OperationSource element a document serializes first under a key of the
\* root's operationSources
SerializedSource(doc, key) ==
  LET puts == SelectSeq(doc.sources, LAMBDA put : put.key = key)
  IN puts[Len(puts)].list[1]

\* C28 (as claimed): get_source reports, for each position i of the
\* argumentKeys list of the serialized OperationSource, an argument whose key
\* is the i-th element of argumentKeys and whose name is the i-th element of
\* argumentNames: an empty-string element shifts nothing after it.
C28_ArgumentsKeepTheirPositions ==
  (IsSource(last) /\ "arguments" \in DOMAIN last.ret[1]) =>
    LET doc == FileAt(ProfileOf(cache, last.ids[1]).path).root
        e == SerializedSource(doc, last.args.key)
        arguments == last.ret[1].arguments
    IN /\ Len(arguments) = Len(e.argumentKeys)
       /\ \A i \in DOMAIN arguments :
            /\ i <= Len(e.argumentKeys) /\ arguments[i].key = e.argumentKeys[i]
            /\ i <= Len(e.argumentNames) => arguments[i].name = e.argumentNames[i]

\* C27 (as claimed): the profile_id a load assigns differs from every id
\* cached when it is assigned, so the insertion replaces no entry: every entry
\* cached before the load is cached after it, the ones the eviction loop
\* popped excepted.
C27_AssignedIdIsFresh ==
  [][(IsLoad(last') /\ last'.out = "inserted") =>
       /\ last'.ret[1].profile_id \notin Keys(cache)
       /\ \A i \in DOMAIN cache :
            (\A k \in DOMAIN last'.popped : last'.popped[k] # cache[i].k) =>
              \E j \in DOMAIN cache' : cache'[j] = cache[i]]_vars

\* C29: in every state that loads, gets, removes and clears reach, no two
\* entries have the same path and every entry is stored under its own
\* profile_id; so get(id) returns a profile only of profile_id id, and
\* list_cached shows no path twice.
C29_OnePathPerEntryAndOwnKey ==
  /\ \A i \in DOMAIN cache : \A j \in DOMAIN cache :
       cache[i].v.path = cache[j].v.path => i = j
  /\ \A i \in DOMAIN cache : cache[i].k = cache[i].v.profile_id
  /\ \A id \in QueryIds :
       get(cache, id).ret # <<>> => get(cache, id).ret[1].profile_id = id
  /\ \A i \in DOMAIN list_cached(cache) : \A j \in DOMAIN list_cached(cache) :
       list_cached(cache)[i].path = list_cached(cache)[j].path => i = j

\* C29 witness: a get that found its profile among two entries of different
\* paths, after it became the most recent
C29_Witness ==
  /\ last.op = "get" /\ last.out = "ok"
  /\ Len(cache) = 2
  /\ cache[2].k = last.ids[1] /\ last.ret = <<cache[2].v>>
  /\ cache[1].v.path # cache[2].v.path

\* a load of a path that is not cached and whose file parses
LoadsNewProfile(c, call) ==
  /\ IsLoad(call)
  /\ lookup_path(c, call.path[1]) = <<>>
  /\ parse_file(call.path[1]).ok

\* C30: the eviction loop of a load ends.  With max_size >= 1 it pops at most
\* one entry, exactly one when the cache holds max_size entries, and the load
\* ends with the new profile inserted.  With max_size <= 0 the load of a path
\* that is not cached and parses inserts nothing: the loop pops from the empty
\* cache, the load ends with an error, and the cache stays empty.
C30_EvictionLoopEnds ==
  [][LoadsNewProfile(cache, last') =>
       IF max_size >= 1
       THEN /\ last'.out = "inserted"
            /\ Len(last'.popped) <= 1
            /\ Len(last'.popped) = 1 <=> Len(cache) = max_size
            /\ \E j \in DOMAIN cache' :
                 cache'[j] = [k |-> last'.ret[1].profile_id, v |-> last'.ret[1]]
            /\ last'.ret[1].path = last'.path[1]
       ELSE /\ last'.out = "KeyError"
            /\ last'.popped = <<>> /\ last'.ret = <<>>
            /\ cache = <<>> /\ cache' = <<>>]_vars

\* C30 witness: an insertion into a cache of two entries that popped one
\* entry and left two
C30_Witness ==
  /\ IsLoad(last) /\ last.out = "inserted"
  /\ max_size = 2 /\ Len(cache) = 2
  /\ Len(last.popped) = 1
  /\ cache[2].v = last.ret[1]

====
